---- MODULE Spec2Model ----
(***************************************************************************)
(* threadgoon-V4.1: concurrent fetch of the selected threads (listings)    *)
(* in a thread pool, sequential download of their .webm attachments in the *)
(* main thread, against an output directory tree shared by every run of    *)
(* the program.                                                            *)
(*                                                                         *)
(* Strings are sequences of one-character strings.  A run is one process   *)
(* executing main(); runs share the file system and nothing else.          *)
(***************************************************************************)
EXTENDS Integers, Sequences, FiniteSets, TLC

(* ---------------------------------------------------------------------- *)
(* Bounds of the model and program constants                              *)
(* ---------------------------------------------------------------------- *)

\* number of chunks response.iter_content yields for one attachment body
BodyChunks == 2
\* worker threads of ThreadPoolExecutor(): max_workers
MaxWorkers == 2
\* name[:200]
MaxNameLen == 200
\* numeric suffixes _1 .. _MaxSuffix that may already be taken in a directory
MaxSuffix == 3
\* longest raw name that is drawn character by character
MaxInputLen == 3

\* the runs of the program that share the output directory
Runs == {1, 2}

(* ---------------------------------------------------------------------- *)
(* sanitize_filename, get_unique_filepath                                  *)
(* ---------------------------------------------------------------------- *)

Reserved == {"<", ">", ":", "\"", "/", "\\", "|", "?", "*"}
StripChars == {".", " "}
ControlChars == {"\t", "\n", "\r", "\f"}
unnamed == <<"u", "n", "n", "a", "m", "e", "d">>

\* positions of the characters str.strip('. ') does not strip
Kept(s) == {i \in 1..Len(s) : s[i] \notin StripChars}

\* the leading run of '.' and ' ' is dropped
LStrip(s) ==
    IF Kept(s) = {}
    THEN <<>>
    ELSE SubSeq(s, CHOOSE i \in Kept(s) : \A j \in Kept(s) : i <= j, Len(s))

\* the trailing run of '.' and ' ' is dropped
RStrip(s) ==
    IF Kept(s) = {}
    THEN <<>>
    ELSE SubSeq(s, 1, CHOOSE i \in Kept(s) : \A j \in Kept(s) : i >= j)

IsNotControl(c) == c \notin ControlChars

\* sanitize_filename without the fallback for a name that ends up empty
sanitize_filename_NoFallback(name) ==
    IF name = <<>>
    THEN unnamed
    ELSE LET subbed == [i \in 1..Len(name) |->
                           IF name[i] \in Reserved THEN "_" ELSE name[i]]
             stripped == RStrip(LStrip(subbed))
             cleaned == SelectSeq(stripped, IsNotControl)
         IN  IF Len(cleaned) > MaxNameLen
             THEN SubSeq(cleaned, 1, MaxNameLen)
             ELSE cleaned

sanitize_filename(name) ==
    IF name = <<>>
    THEN unnamed
    ELSE LET subbed == [i \in 1..Len(name) |->
                           IF name[i] \in Reserved THEN "_" ELSE name[i]]
             stripped == RStrip(LStrip(subbed))
             cleaned == SelectSeq(stripped, IsNotControl)
         IN  IF Len(cleaned) > MaxNameLen
             THEN SubSeq(cleaned, 1, MaxNameLen)
             ELSE IF cleaned = <<>> THEN unnamed ELSE cleaned

\* os.path.join(directory, name)
join(directory, name) == directory \o <<"/">> \o name

RECURSIVE unique_loop(_, _, _, _, _)
unique_loop(exists, directory, base_filename, extension, counter) ==
    LET file_path == join(directory,
                          base_filename \o <<"_", ToString(counter)>> \o extension)
    IN  IF file_path \in exists
        THEN unique_loop(exists, directory, base_filename, extension, counter + 1)
        ELSE file_path

\* get_unique_filepath without the loop: the first suffix is taken unchecked
get_unique_filepath_NoLoop(exists, directory, base_filename, extension) ==
    LET file_path == join(directory, base_filename \o extension)
    IN  IF file_path \in exists
        THEN join(directory, base_filename \o <<"_", ToString(1)>> \o extension)
        ELSE file_path

\* exists: the set of paths for which os.path.exists is true at call time
get_unique_filepath(exists, directory, base_filename, extension) ==
    LET file_path == join(directory, base_filename \o extension)
    IN  IF file_path \in exists
        THEN unique_loop(exists, directory, base_filename, extension, 1)
        ELSE file_path

(* ---------------------------------------------------------------------- *)
(* Inputs: the operator's selection and the remote thread documents       *)
(* ---------------------------------------------------------------------- *)

\* dict.get(key, default)
Get(d, key, default) == IF key \in DOMAIN d THEN d[key] ELSE default

webm_post(name, tim) == [ext |-> ".webm", filename |-> name, tim |-> tim]

\* thread documents the detail endpoint may return (json.loads(response.text))
DocSameName == [posts |-> <<webm_post(<<"a">>, 1), webm_post(<<"a">>, 2)>>]
DocOneWebm == [posts |-> <<[no |-> 7], webm_post(<<"a">>, 3)>>]
DocNoTim == [posts |-> <<[ext |-> ".webm", filename |-> <<"b">>]>>]
DocNoWebm == [posts |-> <<[no |-> 8]>>]

\* selections of one run: three threads (more than the pool has workers), the
\* first two with the same sanitized title and posts of the same filename
Scenarios ==
    { [selected_threads |-> <<<<1, <<"x", "/", "y">>>>, <<2, <<"x", "_", "y">>>>,
                              <<3, <<"z">>>>>>,
       remote |-> <<DocSameName, DocOneWebm, third>>] :
      third \in {DocNoTim, DocNoWebm} }

\* runs that share the output directory: one selected thread
RaceScenarios ==
    { [selected_threads |-> <<<<1, <<"x">>>>>>, remote |-> <<doc>>] :
      doc \in {DocSameName, DocOneWebm} }

IsWebm(post) == Get(post, "ext", "") = ".webm"

\* exceptions get_thread_data re-raises
FetchErrors == {"Timeout", "RequestException", "JSONDecodeError"}
\* exceptions of requests.get / raise_for_status / iter_content
RequestErrors == {"Timeout", "RequestException"}

VARIABLES
    selected_threads,      \* main: the (thread_id, thread_title) pairs
    remote,                \* thread_id -> document served by the detail endpoint
    files,                 \* path -> [owner, chunks]: the regular files on disk
    dirs,                  \* directories on disk
    pc,                    \* run -> position of its main thread
    fut,                   \* run -> listing -> state of its future / listing
    done_q,                \* run -> listings in the order as_completed yields them
    successful_downloads,  \* run -> counter of main
    failed_downloads,      \* run -> counter of main
    frame,                 \* run -> locals of the active download_webms call
    tally,                 \* history: run -> listing -> times counted ok / err
    outs,                  \* history: run -> listing -> webm index -> outcomes
    gets,                  \* history: run -> listing -> webm index -> GETs issued
    creates,               \* history: run -> listing -> webm index -> open("xb") calls
    created,               \* history: tasks whose open("xb") created the file
    rm_failed,             \* history: tasks whose os.remove raised OSError
    entered,               \* history: <<run, listing>> whose webm loop was entered
    after,                 \* history: run -> runs that had finished when it started
    call                   \* a call of one of the two naming functions on its own

vars == <<selected_threads, remote, files, dirs, pc, fut, done_q,
          successful_downloads, failed_downloads, frame,
          tally, outs, gets, creates, created, rm_failed, entered, after, call>>

\* what no step of a run changes
inputs == <<selected_threads, remote, call>>
counters == <<successful_downloads, failed_downloads, tally>>
history == <<outs, gets, creates, created, rm_failed, entered>>

Listings == DOMAIN selected_threads

thread_title(L) == selected_threads[L][2]
thread_id(L) == selected_threads[L][1]

\* download_webms: webms = [post for post in posts if post.get('ext') == '.webm']
webms(L) == SelectSeq(Get(remote[thread_id(L)], "posts", <<>>), IsWebm)

safe_title(L) == sanitize_filename(thread_title(L))

\* locals of download_webms: the thread being processed (the listing whose id
\* and title are in use), the listing whose document thread_data is, the loop
\* index, file_path, whether `filename` is bound, whether the handle f is open
\* on a file this call created, and the chunks written through it
NoFrame == [thread |-> 0, data |-> 0, i |-> 0, file_path |-> <<>>, filename |-> FALSE,
            f |-> FALSE, written |-> 0]

Task(p) == <<p, frame[p].thread, frame[p].i>>

\* the state after the operator's selection, before any run has submitted
\* its fetches; `started` are the runs that will execute main()
InitWith(scenarios, started) ==
    /\ \E sc \in scenarios :
          /\ selected_threads = sc.selected_threads
          /\ remote = sc.remote
    /\ files = [path \in {} |-> 0]
    /\ dirs = {}
    /\ pc = [p \in Runs |-> IF p \in started THEN "idle" ELSE "off"]
    /\ fut = [p \in Runs |-> [L \in Listings |-> "Pending"]]
    /\ done_q = [p \in Runs |-> <<>>]
    /\ successful_downloads = [p \in Runs |-> 0]
    /\ failed_downloads = [p \in Runs |-> 0]
    /\ frame = [p \in Runs |-> NoFrame]
    /\ tally = [p \in Runs |-> [L \in Listings |-> [ok |-> 0, err |-> 0]]]
    /\ outs = [p \in Runs |-> [L \in Listings |->
                  [i \in 1..Len(webms(L)) |-> <<>>]]]
    /\ gets = [p \in Runs |-> [L \in Listings |-> [i \in 1..Len(webms(L)) |-> 0]]]
    /\ creates = [p \in Runs |-> [L \in Listings |-> [i \in 1..Len(webms(L)) |-> 0]]]
    /\ created = {}
    /\ rm_failed = {}
    /\ entered = {}
    /\ after = [p \in Runs |-> {}]

NoCall == [fn |-> "none", args |-> <<>>, done |-> FALSE, ret |-> <<>>]

\* a single run of the program
Init == InitWith(Scenarios, {1}) /\ call = NoCall

\* every run is started, at any time, against the same output directory
InitRace == InitWith(RaceScenarios, Runs) /\ call = NoCall

(* ---------------------------------------------------------------------- *)
(* File system primitives                                                  *)
(* ---------------------------------------------------------------------- *)

\* os.path.exists(path)
exists(path) == path \in DOMAIN files

\* open(path, "xb") that succeeds: a new empty file owned by `task`
create(path, task) ==
    [q \in DOMAIN files \cup {path} |->
        IF q = path THEN [owner |-> task, chunks |-> 0] ELSE files[q]]

\* f.write(chunk) through the handle `task` holds: the bytes reach the path only
\* while the file the handle refers to is still linked there
write(path, task) ==
    IF exists(path) /\ files[path].owner = task
    THEN [files EXCEPT ![path].chunks = @ + 1]
    ELSE files

\* os.remove(path) that succeeds
remove(path) == [q \in DOMAIN files \ {path} |-> files[q]]

(* ---------------------------------------------------------------------- *)
(* main: the executor and the as_completed loop                            *)
(* ---------------------------------------------------------------------- *)

InLoop == {"name", "check", "get", "open", "stream", "cleanup"}

InFlight(p) == {L \in Listings : fut[p][L] = "Fetching"}
Finished(p) == {q \in Runs : pc[q] = "summary"}

\* main, lines 245-253: every selected thread is submitted to the executor
Start(p) ==
    /\ pc[p] = "idle"
    /\ pc' = [pc EXCEPT ![p] = "submitted"]
    /\ after' = [after EXCEPT ![p] = Finished(p)]
    /\ UNCHANGED <<inputs, files, dirs, fut, done_q, counters, frame, history>>

\* the orders in which the elements of the sequence q can be arranged
Orders(q) ==
    {r \in [1..Len(q) -> {q[i] : i \in 1..Len(q)}] :
        \A i \in 1..Len(q) : \E j \in 1..Len(q) : r[j] = q[i]}

\* main, line 255: as_completed(future_to_thread) is called. The futures that
\* have completed by now are yielded first, in no specified order; the others
\* follow as they complete
AsCompleted(p) ==
    /\ pc[p] = "submitted"
    /\ \E r \in Orders(done_q[p]) : done_q' = [done_q EXCEPT ![p] = r]
    /\ pc' = [pc EXCEPT ![p] = "wait"]
    /\ UNCHANGED <<inputs, files, dirs, fut, counters, frame, history, after>>

\* StartFetch in a pool that starts a thread for every queued work item
StartFetch_Unbounded(p, L) ==
    /\ pc[p] \notin {"off", "idle"}
    /\ fut[p][L] = "Pending"
    /\ \A K \in Listings : K < L => fut[p][K] # "Pending"
    /\ fut' = [fut EXCEPT ![p][L] = "Fetching"]
    /\ UNCHANGED <<inputs, files, dirs, pc, done_q, counters, frame, history, after>>

\* a worker thread takes the oldest queued work item (also while the executor
\* is shutting down: shutdown(wait=True) lets queued items run)
StartFetch(p, L) ==
    /\ pc[p] \notin {"off", "idle"}
    /\ fut[p][L] = "Pending"
    /\ \A K \in Listings : K < L => fut[p][K] # "Pending"
    /\ Cardinality(InFlight(p)) < MaxWorkers
    /\ fut' = [fut EXCEPT ![p][L] = "Fetching"]
    /\ UNCHANGED <<inputs, files, dirs, pc, done_q, counters, frame, history, after>>

\* get_thread_data returns the decoded document
FetchReturn(p, L) ==
    /\ fut[p][L] = "Fetching"
    /\ fut' = [fut EXCEPT ![p][L] = "Fetched"]
    /\ done_q' = [done_q EXCEPT ![p] = Append(@, L)]
    /\ UNCHANGED <<inputs, files, dirs, pc, counters, frame, history, after>>

\* get_thread_data logs and re-raises: the future holds the exception
FetchRaise(p, L) ==
    /\ fut[p][L] = "Fetching"
    /\ \E e \in FetchErrors :
          fut' = [fut EXCEPT ![p][L] = "FetchFailed"]
    /\ done_q' = [done_q EXCEPT ![p] = Append(@, L)]
    /\ UNCHANGED <<inputs, files, dirs, pc, counters, frame, history, after>>

\* download_webms returns to main, line 264
Return(p, L) ==
    /\ pc' = [pc EXCEPT ![p] = "wait"]
    /\ fut' = [fut EXCEPT ![p][L] = "Done"]
    /\ successful_downloads' = [successful_downloads EXCEPT ![p] = @ + 1]
    /\ tally' = [tally EXCEPT ![p][L].ok = @ + 1]
    /\ failed_downloads' = failed_downloads
    /\ frame' = [frame EXCEPT ![p] = NoFrame]

\* TakeFailed without the handler at 266: the exception leaves the loop
TakeFailed_Abort(p) ==
    /\ pc[p] = "wait"
    /\ done_q[p] # <<>>
    /\ fut[p][Head(done_q[p])] = "FetchFailed"
    /\ done_q' = [done_q EXCEPT ![p] = Tail(@)]
    /\ fut' = [fut EXCEPT ![p][Head(done_q[p])] = "Errored"]
    /\ pc' = [pc EXCEPT ![p] = "aborted"]
    /\ UNCHANGED <<inputs, files, dirs, counters, frame, history, after>>

\* TakeFailed that counts the thread in both counters
TakeFailed_CountsBoth(p) ==
    /\ pc[p] = "wait"
    /\ done_q[p] # <<>>
    /\ fut[p][Head(done_q[p])] = "FetchFailed"
    /\ done_q' = [done_q EXCEPT ![p] = Tail(@)]
    /\ fut' = [fut EXCEPT ![p][Head(done_q[p])] = "Errored"]
    /\ failed_downloads' = [failed_downloads EXCEPT ![p] = @ + 1]
    /\ successful_downloads' = [successful_downloads EXCEPT ![p] = @ + 1]
    /\ tally' = [tally EXCEPT ![p][Head(done_q[p])] = [ok |-> @.ok + 1, err |-> @.err + 1]]
    /\ UNCHANGED <<inputs, files, dirs, pc, frame, history, after>>

\* main, lines 255-258 and 266-269: future.result() raises
TakeFailed(p) ==
    /\ pc[p] = "wait"
    /\ done_q[p] # <<>>
    /\ fut[p][Head(done_q[p])] = "FetchFailed"
    /\ done_q' = [done_q EXCEPT ![p] = Tail(@)]
    /\ fut' = [fut EXCEPT ![p][Head(done_q[p])] = "Errored"]
    /\ failed_downloads' = [failed_downloads EXCEPT ![p] = @ + 1]
    /\ tally' = [tally EXCEPT ![p][Head(done_q[p])].err = @ + 1]
    /\ UNCHANGED <<inputs, files, dirs, pc, successful_downloads, frame, history, after>>

\* Process run by the worker that fetched L, without waiting for the main thread
Process_InPool(p, L) ==
    /\ pc[p] \in InLoop \cup {"wait"}
    /\ done_q[p] # <<>>
    /\ L = Head(done_q[p])
    /\ fut[p][L] = "Fetched"
    /\ webms(L) # <<>>
    /\ done_q' = [done_q EXCEPT ![p] = Tail(@)]
    /\ dirs' = dirs \cup {safe_title(L)}
    /\ entered' = entered \cup {<<p, L>>}
    /\ pc' = [pc EXCEPT ![p] = "name"]
    /\ fut' = [fut EXCEPT ![p][L] = "Downloading"]
    /\ frame' = [frame EXCEPT ![p] = [NoFrame EXCEPT !.thread = L, !.data = L, !.i = 1]]
    /\ UNCHANGED <<inputs, files, counters, outs, gets, creates, created, rm_failed,
                   after>>

\* main, lines 255-263, and download_webms, lines 91-107, for the thread L
Process(p, L) ==
    /\ pc[p] = "wait"
    /\ done_q[p] # <<>>
    /\ L = Head(done_q[p])
    /\ fut[p][L] = "Fetched"
    /\ done_q' = [done_q EXCEPT ![p] = Tail(@)]
    /\ \/ \* no .webm post: return
          /\ webms(L) = <<>>
          /\ Return(p, L)
          /\ UNCHANGED <<dirs, entered>>
       \/ \* os.makedirs raises OSError: return
          /\ webms(L) # <<>>
          /\ safe_title(L) \notin dirs
          /\ Return(p, L)
          /\ UNCHANGED <<dirs, entered>>
       \/ \* os.makedirs(safe_title, exist_ok=True)
          /\ webms(L) # <<>>
          /\ dirs' = dirs \cup {safe_title(L)}
          /\ entered' = entered \cup {<<p, L>>}
          /\ pc' = [pc EXCEPT ![p] = "name"]
          /\ fut' = [fut EXCEPT ![p][L] = "Downloading"]
          \* thread_id, thread_title = future_to_thread[future] and
          \* thread_data = future.result() are those of the same future
          /\ frame' = [frame EXCEPT ![p] =
                          [NoFrame EXCEPT !.thread = L, !.data = L, !.i = 1]]
          /\ UNCHANGED counters
    /\ UNCHANGED <<inputs, files, outs, gets, creates, created, rm_failed, after>>

\* the as_completed loop takes the next future, which holds a result
TakeFetched(p) == \E L \in Listings : Process(p, L)

\* Summary that does not wait for the futures still running
Summary_Early(p) ==
    /\ pc[p] = "wait"
    /\ done_q[p] = <<>>
    /\ pc' = [pc EXCEPT ![p] = "summary"]
    /\ UNCHANGED <<inputs, files, dirs, fut, done_q, counters, frame, history, after>>

\* main, lines 271-276: the loop is exhausted, the summary is printed
Summary(p) ==
    /\ pc[p] = "wait"
    /\ \A L \in Listings : fut[p][L] \in {"Done", "Errored"}
    /\ pc' = [pc EXCEPT ![p] = "summary"]
    /\ UNCHANGED <<inputs, files, dirs, fut, done_q, counters, frame, history, after>>

(* ---------------------------------------------------------------------- *)
(* download_webms: the loop over webms, lines 109-178                      *)
(* ---------------------------------------------------------------------- *)

\* outcomes of one webm: "Downloaded" (line 147), "Skipped" (115, 151),
\* "NoTim" (120), "Failed" (the handlers at 154 and 165 ran to their continue),
\* "Failed_Unexpected" (the handler at 175)
Failed == {"Failed", "Failed_Unexpected"}

webm(p) == webms(frame[p].thread)[frame[p].i]

\* `continue`, or the end of the loop body: the outcome o of the current webm is
\* known; the loop goes on with the next webm or download_webms returns
Continue(p, o) ==
    LET L == frame[p].thread
        i == frame[p].i
    IN  /\ outs' = [outs EXCEPT ![p][L][i] = Append(@, o)]
        /\ IF i < Len(webms(L))
           THEN /\ pc' = [pc EXCEPT ![p] = "name"]
                /\ frame' = [frame EXCEPT ![p] =
                                [NoFrame EXCEPT !.thread = L, !.data = frame[p].data,
                                                !.i = i + 1,
                                                !.filename = frame[p].filename]]
                /\ UNCHANGED <<fut, counters>>
           ELSE Return(p, L)

\* lines 111-112
Name(p) ==
    /\ pc[p] = "name"
    /\ LET base_filename == sanitize_filename(Get(webm(p), "filename", unnamed))
       IN  frame' = [frame EXCEPT ![p].file_path =
                        get_unique_filepath(DOMAIN files, safe_title(frame[p].thread),
                                            base_filename, <<".webm">>)]
    /\ pc' = [pc EXCEPT ![p] = "check"]
    /\ UNCHANGED <<inputs, files, dirs, fut, done_q, counters, history, after>>

\* Check without the skip branch at 114-116
Check_NoSkip(p) ==
    /\ pc[p] = "check"
    /\ IF Get(webm(p), "tim", 0) = 0
       THEN Continue(p, "NoTim")
       ELSE /\ pc' = [pc EXCEPT ![p] = "get"]
            /\ UNCHANGED <<fut, counters, frame, outs>>
    /\ UNCHANGED <<inputs, files, dirs, done_q, gets, creates, created, rm_failed,
                   entered, after>>

\* lines 114-121
Check(p) ==
    /\ pc[p] = "check"
    /\ IF exists(frame[p].file_path)
       THEN Continue(p, "Skipped")
       ELSE IF Get(webm(p), "tim", 0) = 0
            THEN Continue(p, "NoTim")
            ELSE /\ pc' = [pc EXCEPT ![p] = "get"]
                 /\ UNCHANGED <<fut, counters, frame, outs>>
    /\ UNCHANGED <<inputs, files, dirs, done_q, gets, creates, created, rm_failed,
                   entered, after>>

\* lines 126-130: the streamed GET answers
GetOk(p) ==
    /\ pc[p] = "get"
    /\ gets' = [gets EXCEPT ![p][frame[p].thread][frame[p].i] = @ + 1]
    /\ frame' = [frame EXCEPT ![p].filename = TRUE]
    /\ pc' = [pc EXCEPT ![p] = "open"]
    /\ UNCHANGED <<inputs, files, dirs, fut, done_q, counters, outs, creates,
                   created, rm_failed, entered, after>>

\* lines 126-127 raise Timeout or another RequestException: the handler at 154 or
\* 165 prints `filename`, which is unbound until line 130 has run once in this
\* call (UnboundLocalError, caught at 175)
GetRaise(p) ==
    /\ pc[p] = "get"
    /\ gets' = [gets EXCEPT ![p][frame[p].thread][frame[p].i] = @ + 1]
    /\ \E e \in RequestErrors :
          IF frame[p].filename
          THEN /\ pc' = [pc EXCEPT ![p] = "cleanup"]
               /\ UNCHANGED <<fut, counters, frame, outs>>
          ELSE Continue(p, "Failed_Unexpected")
    /\ UNCHANGED <<inputs, files, dirs, done_q, creates, created, rm_failed,
                   entered, after>>

\* line 129 raises ValueError (malformed content-length), caught at 175
GetUnexpected(p) ==
    /\ pc[p] = "get"
    /\ gets' = [gets EXCEPT ![p][frame[p].thread][frame[p].i] = @ + 1]
    /\ Continue(p, "Failed_Unexpected")
    /\ UNCHANGED <<inputs, files, dirs, done_q, creates, created, rm_failed,
                   entered, after>>

\* Open with mode "wb": an existing file is truncated and written over
Open_Truncate(p) ==
    /\ pc[p] = "open"
    /\ creates' = [creates EXCEPT ![p][frame[p].thread][frame[p].i] = @ + 1]
    /\ files' = create(frame[p].file_path, Task(p))
    /\ created' = created \cup {Task(p)}
    /\ frame' = [frame EXCEPT ![p].f = TRUE]
    /\ pc' = [pc EXCEPT ![p] = "stream"]
    /\ UNCHANGED <<fut, counters, outs>>
    /\ UNCHANGED <<inputs, dirs, done_q, gets, rm_failed, entered, after>>

\* Open without the handler at 150: FileExistsError reaches the handler at 175
Open_ExistsFails(p) ==
    /\ pc[p] = "open"
    /\ creates' = [creates EXCEPT ![p][frame[p].thread][frame[p].i] = @ + 1]
    /\ IF exists(frame[p].file_path)
       THEN /\ Continue(p, "Failed_Unexpected")
            /\ UNCHANGED <<files, created>>
       ELSE /\ files' = create(frame[p].file_path, Task(p))
            /\ created' = created \cup {Task(p)}
            /\ frame' = [frame EXCEPT ![p].f = TRUE]
            /\ pc' = [pc EXCEPT ![p] = "stream"]
            /\ UNCHANGED <<fut, counters, outs>>
    /\ UNCHANGED <<inputs, dirs, done_q, gets, rm_failed, entered, after>>

\* line 133: open(file_path, "xb")
Open(p) ==
    /\ pc[p] = "open"
    /\ creates' = [creates EXCEPT ![p][frame[p].thread][frame[p].i] = @ + 1]
    /\ IF exists(frame[p].file_path)
       THEN \* FileExistsError, lines 150-152
            /\ Continue(p, "Skipped")
            /\ UNCHANGED <<files, created>>
       ELSE /\ files' = create(frame[p].file_path, Task(p))
            /\ created' = created \cup {Task(p)}
            /\ frame' = [frame EXCEPT ![p].f = TRUE]
            /\ pc' = [pc EXCEPT ![p] = "stream"]
            /\ UNCHANGED <<fut, counters, outs>>
    /\ UNCHANGED <<inputs, dirs, done_q, gets, rm_failed, entered, after>>

\* line 133 raises another OSError (permission, ...), caught at 175
OpenRaise(p) ==
    /\ pc[p] = "open"
    /\ ~exists(frame[p].file_path)
    /\ creates' = [creates EXCEPT ![p][frame[p].thread][frame[p].i] = @ + 1]
    /\ Continue(p, "Failed_Unexpected")
    /\ UNCHANGED <<inputs, files, dirs, done_q, gets, created, rm_failed,
                   entered, after>>

\* lines 138-145: one chunk is written
WriteChunk(p) ==
    /\ pc[p] = "stream"
    /\ frame[p].written < BodyChunks
    /\ files' = write(frame[p].file_path, Task(p))
    /\ frame' = [frame EXCEPT ![p].written = @ + 1]
    /\ UNCHANGED <<inputs, dirs, pc, fut, done_q, counters, history, after>>

\* lines 146-148: the body is exhausted, the file is closed
Downloaded(p) ==
    /\ pc[p] = "stream"
    /\ frame[p].written = BodyChunks
    /\ Continue(p, "Downloaded")
    /\ UNCHANGED <<inputs, files, dirs, done_q, gets, creates, created, rm_failed,
                   entered, after>>

\* iter_content raises Timeout or another RequestException: the file is closed
\* and the handler at 154 or 165 runs
StreamRaise(p) ==
    /\ pc[p] = "stream"
    /\ frame[p].written < BodyChunks
    /\ \E e \in RequestErrors : pc' = [pc EXCEPT ![p] = "cleanup"]
    /\ UNCHANGED <<inputs, files, dirs, fut, done_q, counters, frame, history, after>>

\* f.write raises OSError: the file is closed, the exception is caught at 175
WriteRaise(p) ==
    /\ pc[p] = "stream"
    /\ frame[p].written < BodyChunks
    /\ Continue(p, "Failed_Unexpected")
    /\ UNCHANGED <<inputs, files, dirs, done_q, gets, creates, created, rm_failed,
                   entered, after>>

\* Cleanup whose handlers end with `return` instead of `continue`
Cleanup_Return(p) ==
    /\ pc[p] = "cleanup"
    /\ IF exists(frame[p].file_path)
       THEN files' = remove(frame[p].file_path)
       ELSE files' = files
    /\ outs' = [outs EXCEPT ![p][frame[p].thread][frame[p].i] = Append(@, "Failed")]
    /\ Return(p, frame[p].thread)
    /\ UNCHANGED <<inputs, dirs, done_q, gets, creates, created, rm_failed,
                   entered, after>>

\* Cleanup that removes the file and requests the attachment again
Cleanup_Retry(p) ==
    /\ pc[p] = "cleanup"
    /\ files' = remove(frame[p].file_path)
    /\ pc' = [pc EXCEPT ![p] = "get"]
    /\ frame' = [frame EXCEPT ![p].f = FALSE, ![p].written = 0]
    /\ UNCHANGED <<inputs, dirs, fut, done_q, counters, history, after>>

\* Cleanup whose handlers only log and continue
Cleanup_NoRemove(p) ==
    /\ pc[p] = "cleanup"
    /\ Continue(p, "Failed")
    /\ UNCHANGED <<inputs, files, dirs, done_q, gets, creates, created, rm_failed,
                   entered, after>>

\* lines 158-163 and 168-173: if os.path.exists(file_path): os.remove(file_path)
Cleanup(p) ==
    /\ pc[p] = "cleanup"
    /\ IF exists(frame[p].file_path)
       THEN \/ /\ files' = remove(frame[p].file_path)
               /\ rm_failed' = rm_failed
            \/ \* os.remove raises OSError: pass
               /\ files' = files
               /\ rm_failed' = rm_failed \cup {Task(p)}
       ELSE UNCHANGED <<files, rm_failed>>
    /\ Continue(p, "Failed")
    /\ UNCHANGED <<inputs, dirs, done_q, gets, creates, created, entered, after>>

\* KeyboardInterrupt in the main thread inside the `with ThreadPoolExecutor()`
\* block: no handler of download_webms catches it (it is no Exception); an open
\* file is closed by its `with`; executor.__exit__ waits for the workers
Interrupt(p) ==
    /\ pc[p] \in InLoop \cup {"submitted", "wait"}
    /\ pc' = [pc EXCEPT ![p] = "shutdown"]
    /\ UNCHANGED <<inputs, files, dirs, fut, done_q, counters, frame, history, after>>

\* main, lines 278-281: the workers have drained the queue; sys.exit(0)
Exit(p) ==
    /\ pc[p] = "shutdown"
    /\ \A L \in Listings : fut[p][L] \notin {"Pending", "Fetching"}
    /\ pc' = [pc EXCEPT ![p] = "exit"]
    /\ UNCHANGED <<inputs, files, dirs, fut, done_q, counters, frame, history, after>>

\* the steps of run p: its worker threads and its main thread
Run(p) ==
    \/ Start(p)
    \/ AsCompleted(p)
    \/ \E L \in Listings : StartFetch(p, L)
    \/ \E L \in Listings : FetchReturn(p, L)
    \/ \E L \in Listings : FetchRaise(p, L)
    \/ TakeFailed(p)
    \/ TakeFetched(p)
    \/ Summary(p)
    \/ Name(p)
    \/ Check(p)
    \/ GetOk(p)
    \/ GetRaise(p)
    \/ GetUnexpected(p)
    \/ Open(p)
    \/ OpenRaise(p)
    \/ WriteChunk(p)
    \/ Downloaded(p)
    \/ StreamRaise(p)
    \/ WriteRaise(p)
    \/ Cleanup(p)

Next == \E p \in Runs : Run(p) \/ Interrupt(p) \/ Exit(p)

\* runs the operator does not interrupt
NextRace == \E p \in Runs : Run(p)

Spec == Init /\ [][Next]_vars

RaceSpec == InitRace /\ [][NextRace]_vars

(* ---------------------------------------------------------------------- *)
(* threadgoon-V3.5: the fetches run in the pool, the `with` block waits    *)
(* for all of them, then the script pairs choice_list with as_completed    *)
(* ---------------------------------------------------------------------- *)

\* the webm of the document in hand
webm35(p) == webms(frame[p].data)[frame[p].i]

Task35(p) == <<p, frame[p].data, frame[p].i>>

\* V3.5, lines 25-30: leaving the `with` block waits for every fetch; then
\* as_completed(futures) is called with every future complete
AsCompleted35(p) ==
    /\ \A L \in Listings : fut[p][L] \in {"Fetched", "FetchFailed"}
    /\ AsCompleted(p)

\* the end of the body of the inner loop: the next webm, or the next pair
Continue35(p, o) ==
    LET D == frame[p].data
        i == frame[p].i
    IN  /\ outs' = [outs EXCEPT ![p][D][i] = Append(@, o)]
        /\ IF i < Len(webms(D))
           THEN /\ pc' = [pc EXCEPT ![p] = "name"]
                /\ frame' = [frame EXCEPT ![p].i = i + 1, ![p].file_path = <<>>]
                /\ fut' = fut
           ELSE /\ pc' = [pc EXCEPT ![p] = "wait"]
                /\ frame' = [frame EXCEPT ![p] = NoFrame]
                /\ fut' = [fut EXCEPT ![p][D] = "Done"]

\* V3.5, lines 30-35: the k-th choice is paired with the k-th future yielded
Take35(p) ==
    /\ pc[p] = "wait"
    /\ done_q[p] # <<>>
    /\ LET k == Len(selected_threads) - Len(done_q[p]) + 1
           D == Head(done_q[p])
       IN  /\ done_q' = [done_q EXCEPT ![p] = Tail(@)]
           /\ IF fut[p][D] = "FetchFailed"
              THEN \* future.result() raises: the script ends with a traceback
                   /\ pc' = [pc EXCEPT ![p] = "crashed"]
                   /\ fut' = [fut EXCEPT ![p][D] = "Errored"]
                   /\ UNCHANGED <<dirs, frame, entered>>
              ELSE /\ dirs' = dirs \cup {thread_title(k)}
                   /\ entered' = entered \cup {<<p, D>>}
                   /\ IF webms(D) = <<>>
                      THEN /\ fut' = [fut EXCEPT ![p][D] = "Done"]
                           /\ UNCHANGED <<pc, frame>>
                      ELSE /\ fut' = [fut EXCEPT ![p][D] = "Downloading"]
                           /\ pc' = [pc EXCEPT ![p] = "name"]
                           /\ frame' = [frame EXCEPT ![p] =
                                           [NoFrame EXCEPT !.thread = k, !.data = D,
                                                           !.i = 1]]
    /\ UNCHANGED <<inputs, files, counters, outs, gets, creates, created, rm_failed,
                   after>>

\* V3.5, lines 37-39: the path is built from the raw title and filename; a
\* missing 'filename' or 'tim' is a KeyError, which ends the script
Check35(p) ==
    /\ pc[p] = "name"
    /\ LET file_path == join(thread_title(frame[p].thread),
                             Get(webm35(p), "filename", <<>>) \o <<".webm">>)
       IN  IF "filename" \notin DOMAIN webm35(p)
           THEN /\ pc' = [pc EXCEPT ![p] = "crashed"]
                /\ UNCHANGED <<fut, frame, outs>>
           ELSE IF file_path \in DOMAIN files
                THEN Continue35(p, "Skipped")
                ELSE IF "tim" \notin DOMAIN webm35(p)
                     THEN /\ pc' = [pc EXCEPT ![p] = "crashed"]
                          /\ UNCHANGED <<fut, frame, outs>>
                     ELSE /\ frame' = [frame EXCEPT ![p].file_path = file_path]
                          /\ pc' = [pc EXCEPT ![p] = "get"]
                          /\ UNCHANGED <<fut, outs>>
    /\ UNCHANGED <<inputs, files, dirs, done_q, counters, gets, creates, created,
                   rm_failed, entered, after>>

\* V3.5, line 39: requests.get returns the whole body
Get35(p) ==
    /\ pc[p] = "get"
    /\ gets' = [gets EXCEPT ![p][frame[p].data][frame[p].i] = @ + 1]
    /\ pc' = [pc EXCEPT ![p] = "open"]
    /\ UNCHANGED <<inputs, files, dirs, fut, done_q, counters, frame, outs, creates,
                   created, rm_failed, entered, after>>

\* V3.5, line 39: requests.get raises, which ends the script
GetRaise35(p) ==
    /\ pc[p] = "get"
    /\ gets' = [gets EXCEPT ![p][frame[p].data][frame[p].i] = @ + 1]
    /\ pc' = [pc EXCEPT ![p] = "crashed"]
    /\ UNCHANGED <<inputs, files, dirs, fut, done_q, counters, frame, outs, creates,
                   created, rm_failed, entered, after>>

\* V3.5, lines 40-42: open(file_path, "wb") creates or truncates; the body is
\* written in one call
Write35(p) ==
    /\ pc[p] = "open"
    /\ files' = [q \in DOMAIN files \cup {frame[p].file_path} |->
                    IF q = frame[p].file_path
                    THEN [owner |-> Task35(p), chunks |-> BodyChunks]
                    ELSE files[q]]
    /\ creates' = [creates EXCEPT ![p][frame[p].data][frame[p].i] = @ + 1]
    /\ created' = created \cup {Task35(p)}
    /\ Continue35(p, "Downloaded")
    /\ UNCHANGED <<inputs, dirs, done_q, counters, gets, rm_failed, entered, after>>

\* V3.5: the zip is exhausted, the script ends
End35(p) ==
    /\ pc[p] = "wait"
    /\ done_q[p] = <<>>
    /\ pc' = [pc EXCEPT ![p] = "end"]
    /\ UNCHANGED <<inputs, files, dirs, fut, done_q, counters, frame, history, after>>

Run35(p) ==
    \/ Start(p)
    \/ \E L \in Listings : StartFetch(p, L)
    \/ \E L \in Listings : FetchReturn(p, L)
    \/ \E L \in Listings : FetchRaise(p, L)
    \/ AsCompleted35(p)
    \/ Take35(p)
    \/ Check35(p)
    \/ Get35(p)
    \/ GetRaise35(p)
    \/ Write35(p)
    \/ End35(p)

Next35 == \E p \in Runs : Run35(p)

Spec35 == Init /\ [][Next35]_vars

(* ---------------------------------------------------------------------- *)
(* The naming functions called on their own                                *)
(* ---------------------------------------------------------------------- *)

Repeat(c, n) == [i \in 1..n |-> c]

\* raw names: every string of at most MaxInputLen characters over an alphabet
\* with a plain, two reserved, the two stripped and a control character, and
\* names longer than MaxNameLen
Alphabet == {"a", "/", "*", ".", " ", "\n"}
ShortNames == UNION {[1..n -> Alphabet] : n \in 0..MaxInputLen}
LongNames ==
    { Repeat("a", MaxNameLen),
      Repeat("a", MaxNameLen + 1),
      <<".">> \o Repeat("a", MaxNameLen + 1) \o <<" ">>,
      Repeat("/", MaxNameLen + 2),
      Repeat(".", MaxNameLen + 1),
      Repeat("\n", MaxNameLen + 1) \o <<"a">>,
      <<"a">> \o Repeat("\n", MaxNameLen) }

SanitizeCalls ==
    { [fn |-> "sanitize_filename", args |-> <<name>>, done |-> FALSE, ret |-> <<>>] :
      name \in ShortNames \cup LongNames }

\* directory states: any set of the paths base, base_1 .. base_MaxSuffix of two
\* base names, one of which is the other with the suffix _1
Bases == {<<"a">>, <<"a", "_", "1">>}
Extensions == {<<".webm">>, <<>>}
Suffixes == {<<>>} \cup {<<"_", ToString(k)>> : k \in 1..MaxSuffix}
Paths(directory, extension) ==
    {join(directory, b \o sfx \o extension) : b \in Bases, sfx \in Suffixes}

UniqueCalls ==
    UNION { { [fn |-> "get_unique_filepath", args |-> <<X, <<"d">>, b, e>>,
               done |-> FALSE, ret |-> <<>>] :
              X \in SUBSET Paths(<<"d">>, e), b \in Bases } :
            e \in Extensions }

InitFun ==
    /\ InitWith({[selected_threads |-> <<>>, remote |-> <<>>]}, {})
    /\ call \in SanitizeCalls \cup UniqueCalls

ApplySanitize ==
    /\ call.fn = "sanitize_filename"
    /\ ~call.done
    /\ call' = [call EXCEPT !.done = TRUE, !.ret = sanitize_filename(call.args[1])]
    /\ UNCHANGED <<selected_threads, remote, files, dirs, pc, fut, done_q, counters,
                   frame, history, after>>

ApplyUnique ==
    /\ call.fn = "get_unique_filepath"
    /\ ~call.done
    /\ call' = [call EXCEPT !.done = TRUE,
                            !.ret = get_unique_filepath(call.args[1], call.args[2],
                                                        call.args[3], call.args[4])]
    /\ UNCHANGED <<selected_threads, remote, files, dirs, pc, fut, done_q, counters,
                   frame, history, after>>

NextFun == ApplySanitize \/ ApplyUnique

FunSpec == InitFun /\ [][NextFun]_vars

(* ---------------------------------------------------------------------- *)
(* Properties                                                              *)
(* ---------------------------------------------------------------------- *)

Tasks(L) == 1..Len(webms(L))
HasTim(L, i) == Get(webms(L)[i], "tim", 0) # 0
OwnedFiles(task) == {path \in DOMAIN files : files[path].owner = task}
Terminal == {"Done", "Errored"}
Interrupted == {"shutdown", "exit"}

\* C1: once the fetch of a listing has failed, the run neither aborts nor blocks:
\* unless the operator interrupts it, it can always take a further step until
\* the summary, and at the summary every selected listing is Done or Errored.
C1_FetchFailureIsolated ==
    \A p \in Runs :
        (\E L \in Listings : fut[p][L] \in {"FetchFailed", "Errored"}) =>
            \/ pc[p] \in Interrupted
            \/ pc[p] = "summary" /\ \A K \in Listings : fut[p][K] \in Terminal
            \/ pc[p] # "summary" /\ ENABLED Run(p)

\* a run has ended with one listing Errored and another one downloaded
C1_Witness ==
    \E p \in Runs : \E L, K \in Listings :
        /\ pc[p] = "summary"
        /\ fut[p][L] = "Errored"
        /\ fut[p][K] = "Done"
        /\ \E i \in Tasks(K) : outs[p][K][i] = <<"Downloaded">>

\* C2: a listing whose fetch failed is counted as errored exactly once and never
\* as succeeded, and none of its attachments is ever requested, created, written
\* or given an outcome.
C2_FailedFetchRecordedOnce ==
    \A p \in Runs : \A L \in Listings :
        fut[p][L] \in {"FetchFailed", "Errored"} =>
            /\ tally[p][L].ok = 0
            /\ tally[p][L].err = (IF fut[p][L] = "Errored" THEN 1 ELSE 0)
            /\ <<p, L>> \notin entered
            /\ \A i \in Tasks(L) :
                  /\ gets[p][L][i] = 0
                  /\ creates[p][L][i] = 0
                  /\ outs[p][L][i] = <<>>
                  /\ OwnedFiles(<<p, L, i>>) = {}

\* the run has ended; the fetch of a listing with a downloadable webm had failed
C2_Witness ==
    \E p \in Runs : \E L \in Listings :
        /\ pc[p] = "summary"
        /\ fut[p][L] = "Errored"
        /\ \E i \in Tasks(L) : HasTim(L, i)
        /\ failed_downloads[p] = 1

\* C10: when the summary is printed every selected listing has reached Done or
\* Errored and has been counted exactly once, so the two counters add up to the
\* number of selected listings.
C10_SummaryCountsEveryListing ==
    \A p \in Runs :
        pc[p] = "summary" =>
            /\ \A L \in Listings :
                  /\ fut[p][L] \in Terminal
                  /\ tally[p][L].ok + tally[p][L].err = 1
                  /\ tally[p][L].ok = 1 <=> fut[p][L] = "Done"
            /\ successful_downloads[p] + failed_downloads[p] = Len(selected_threads)
            /\ successful_downloads[p] = Cardinality({L \in Listings : fut[p][L] = "Done"})

\* a summary with listings of both kinds
C10_Witness ==
    \E p \in Runs :
        /\ pc[p] = "summary"
        /\ successful_downloads[p] = 2
        /\ failed_downloads[p] = 1

\* C3: a run started after another run has ended with every attachment
\* Downloaded (same selection, same documents, same output directory) issues no
\* GET for an attachment, creates no file, and every attachment it has dealt
\* with is Skipped.
C3_SecondRunSkipsEverything ==
    \A p, q \in Runs :
        ( /\ q \in after[p]
          /\ \A L \in Listings : \A i \in Tasks(L) : outs[q][L][i] = <<"Downloaded">> )
        => \A L \in Listings : \A i \in Tasks(L) :
              /\ gets[p][L][i] = 0
              /\ creates[p][L][i] = 0
              /\ OwnedFiles(<<p, L, i>>) = {}
              /\ outs[p][L][i] \in {<<>>, <<"Skipped">>}

\* C4: a writer whose exclusive create finds the path taken (a concurrent writer
\* created it after this writer's skip check) ends as Skipped, leaves every file
\* as it is and never owns or writes a file.
C4_LoserStep(p) ==
    LET L == frame[p].thread
        i == frame[p].i
    IN  ( /\ pc[p] = "open"
          /\ exists(frame[p].file_path)
          /\ creates'[p][L][i] # creates[p][L][i] )
        => /\ outs'[p][L][i] = <<"Skipped">>
           /\ files' = files
           /\ created' = created
           /\ rm_failed' = rm_failed

C4_RaceLoserSkipped ==
    /\ [](\A p \in Runs : \A L \in Listings : \A i \in Tasks(L) :
            (outs[p][L][i] = <<"Skipped">> /\ creates[p][L][i] > 0) =>
                <<p, L, i>> \notin created /\ OwnedFiles(<<p, L, i>>) = {})
    /\ [][\A p \in Runs : C4_LoserStep(p)]_vars

\* a writer lost the exclusive create and the winner's file is complete
C4_Witness ==
    \E p \in Runs : \E L \in Listings : \E i \in Tasks(L) :
        /\ outs[p][L][i] = <<"Skipped">>
        /\ creates[p][L][i] = 1
        /\ \E path \in DOMAIN files :
              files[path].owner[1] # p /\ files[path].chunks = BodyChunks

\* C5: when the body stream of an attachment fails with a timeout or transport
\* error after the file was created, the handler's step ends the attachment as
\* Failed and leaves no file at the target path unless os.remove itself failed;
\* the file the failed writer created never survives its Failed outcome
\* otherwise.
C5_CleanupStep(p) ==
    LET L == frame[p].thread
        i == frame[p].i
    IN  (pc[p] = "cleanup" /\ frame[p].f /\ pc'[p] \in {"name", "wait"})
        => /\ outs'[p][L][i] = <<"Failed">>
           /\ \/ frame[p].file_path \notin DOMAIN files'
              \/ <<p, L, i>> \in rm_failed'

C5_PartialFileDeleted ==
    /\ [](\A p \in Runs : \A L \in Listings : \A i \in Tasks(L) :
            ( /\ <<p, L, i>> \in created
              /\ outs[p][L][i] = <<"Failed">>
              /\ <<p, L, i>> \notin rm_failed )
            => OwnedFiles(<<p, L, i>>) = {})
    /\ [][\A p \in Runs : C5_CleanupStep(p)]_vars

\* the handler has run: the attachment is Failed and its file is gone
C5_Witness ==
    \E p \in Runs : \E L \in Listings : \E i \in Tasks(L) :
        /\ <<p, L, i>> \in created
        /\ outs[p][L][i] = <<"Failed">>
        /\ <<p, L, i>> \notin rm_failed
        /\ OwnedFiles(<<p, L, i>>) = {}

\* C6: after an operator interrupt the file that was being streamed is gone
\* when the program has exited, and from the interrupt on no listing fetch and
\* no attachment request starts.
C6_NoOrphanAfterExit ==
    \A p \in Runs :
        (pc[p] = "exit" /\ frame[p].f) =>
            ~(/\ exists(frame[p].file_path)
              /\ files[frame[p].file_path].owner = Task(p))

C6_NoNewWorkStep(p) ==
    pc[p] \in Interrupted =>
        /\ \A L \in Listings : fut[p][L] = "Pending" => fut'[p][L] = "Pending"
        /\ gets'[p] = gets[p]

C6_InterruptCleansUp ==
    /\ []C6_NoOrphanAfterExit
    /\ [][\A p \in Runs : C6_NoNewWorkStep(p)]_vars

\* the webms of run p that have been requested and have no outcome yet
InProgress(p) ==
    {t \in UNION {{<<L, i>> : i \in Tasks(L)} : L \in Listings} :
        /\ gets[p][t[1]][t[2]] > 0
        /\ outs[p][t[1]][t[2]] = <<>>}

\* C7 as claimed: listing processing runs in the worker pool, so a listing whose
\* fetch has returned can start its downloads while the attachments of another
\* listing of the same run are being downloaded.
C7_FetchedListingNeedNotWait ==
    \A p \in Runs : \A A, B \in Listings :
        ( /\ A # B
          /\ fut[p][B] = "Downloading"
          /\ fut[p][A] = "Fetched"
          /\ pc[p] \notin Interrupted )
        => ENABLED Process(p, A)

\* C7 as amended: the downloads of one run never overlap. Only the fetches run
\* in the worker pool; download_webms runs in the main thread, so at most one
\* listing of a run is downloading and at most one of its attachments is in
\* progress at any time.
C7_DownloadsNeverOverlap ==
    \A p \in Runs :
        /\ Cardinality({L \in Listings : fut[p][L] = "Downloading"}) <= 1
        /\ Cardinality(InProgress(p)) <= 1
        /\ \A L \in Listings :
              fut[p][L] = "Downloading" => (pc[p] \in InLoop \cup Interrupted
                                            /\ frame[p].thread = L)

\* what does overlap: the fetch of one listing and the download of another
C7_Witness ==
    \E p \in Runs : \E A, B \in Listings :
        /\ fut[p][A] = "Downloading"
        /\ pc[p] = "stream"
        /\ frame[p].written > 0
        /\ fut[p][B] = "Fetching"

Outcomes == {"Downloaded", "Skipped"} \cup Failed

C9_FailStep(p) ==
    LET L == frame[p].thread
        i == frame[p].i
    IN  ( /\ pc[p] \in InLoop
          /\ outs'[p][L][i] # outs[p][L][i]
          /\ outs'[p][L][i][Len(outs'[p][L][i])] \in Failed )
        => IF i < Len(webms(L))
           THEN /\ pc'[p] = "name"
                /\ frame'[p].thread = L
                /\ frame'[p].i = i + 1
                /\ fut'[p][L] = "Downloading"
           ELSE /\ pc'[p] = "wait"
                /\ fut'[p][L] = "Done"

C9_AfterFailure(p) ==
    (\E L \in Listings : \E i \in Tasks(L) :
        outs[p][L][i] # <<>> /\ outs[p][L][i][1] \in Failed)
    => \/ pc[p] \in Interrupted
       \/ pc[p] = "summary" /\ \A K \in Listings : fut[p][K] \in Terminal
       \/ pc[p] # "summary" /\ ENABLED Run(p)

C9_AttachmentFailureIsolated ==
    /\ [](\A p \in Runs :
            /\ C9_AfterFailure(p)
            /\ \A L \in Listings : \A i, j \in Tasks(L) :
                  (i < j /\ outs[p][L][j] # <<>>) => outs[p][L][i] # <<>>)
    /\ [][\A p \in Runs : C9_FailStep(p)]_vars

\* the first webm of a listing Failed, the second was Downloaded, and another
\* listing was downloaded too
C9_Witness ==
    \E p \in Runs : \E L, K \in Listings :
        /\ L # K
        /\ Len(webms(L)) = 2
        /\ outs[p][L][1] # <<>> /\ outs[p][L][1][1] \in Failed
        /\ outs[p][L][2] = <<"Downloaded">>
        /\ fut[p][K] = "Done"
        /\ \E i \in Tasks(K) : outs[p][K][i] = <<"Downloaded">>

\* C11: when the path computed for a webm exists at the skip check (line 114),
\* the step ends the webm as Skipped, issues no GET, opens no file and leaves
\* every file on disk as it is; a webm skipped at the check never has a request,
\* a create attempt or a file of its own.
C11_SkipStep(p) ==
    LET L == frame[p].thread
        i == frame[p].i
    IN  (pc[p] = "check" /\ exists(frame[p].file_path) /\ pc'[p] # "check")
        => /\ outs'[p][L][i] = <<"Skipped">>
           /\ pc'[p] \in {"name", "wait"}
           /\ gets' = gets
           /\ creates' = creates
           /\ files' = files
           /\ created' = created

C11_SkipRule ==
    /\ [](\A p \in Runs : \A L \in Listings : \A i \in Tasks(L) :
            (outs[p][L][i] = <<"Skipped">> /\ creates[p][L][i] = 0) =>
                /\ gets[p][L][i] = 0
                /\ <<p, L, i>> \notin created
                /\ OwnedFiles(<<p, L, i>>) = {})
    /\ [][\A p \in Runs : C11_SkipStep(p)]_vars

\* a webm with 'tim' was skipped at the check: another run had created the path
\* after it was computed, and that file is still there
C11_Witness ==
    \E p \in Runs : \E L \in Listings : \E i \in Tasks(L) :
        /\ HasTim(L, i)
        /\ outs[p][L][i] = <<"Skipped">>
        /\ creates[p][L][i] = 0
        /\ gets[p][L][i] = 0
        /\ \E path \in DOMAIN files : files[path].owner[1] # p

\* C12: in the summary a fetched listing with a webm that did not fail is
\* counted as succeeded, and a fetched listing with an eligible webm (one with
\* 'tim') whose webms all ended as Failed is not counted as succeeded.
C12_AllFailedNotSucceeded ==
    \A p \in Runs : \A L \in Listings :
        (pc[p] = "summary" /\ <<p, L>> \in entered) =>
            /\ (\E i \in Tasks(L) :
                    outs[p][L][i] # <<>> /\ outs[p][L][i][1] \notin Failed)
               => tally[p][L] = [ok |-> 1, err |-> 0]
            /\ ( /\ \E i \in Tasks(L) : HasTim(L, i)
                 /\ \A i \in Tasks(L) :
                       outs[p][L][i] # <<>> /\ outs[p][L][i][1] \in Failed )
               => tally[p][L].ok = 0

\* the path get_unique_filepath tries at round k: base+ext, then base_k+ext
Candidate(directory, base_filename, extension, k) ==
    join(directory,
         base_filename \o (IF k = 0 THEN <<>> ELSE <<"_", ToString(k)>>) \o extension)

\* C13: for every directory state, base name and extension get_unique_filepath
\* returns (after at most as many rounds as there are paths in the directory) a
\* path that does not exist at call time: directory/base+ext when that is free,
\* otherwise directory/base_k+ext for the smallest k >= 1 whose path is free.
C13_UniquePathIsFree ==
    call.fn = "get_unique_filepath" =>
        LET ex == call.args[1]
            d == call.args[2]
            b == call.args[3]
            e == call.args[4]
        IN  IF call.done
            THEN /\ call.ret \notin ex
                 /\ \E k \in 0..Cardinality(ex) :
                       /\ call.ret = Candidate(d, b, e, k)
                       /\ \A j \in 0..(k - 1) : Candidate(d, b, e, j) \in ex
            ELSE ENABLED ApplyUnique

\* base+ext and every suffix up to MaxSuffix but _2 are taken, base_2+ext is
\* returned; the directory also holds a file of the other base name
C13_Witness ==
    /\ call.fn = "get_unique_filepath"
    /\ call.done
    /\ call.args[3] = <<"a">>
    /\ call.args[4] = <<".webm">>
    /\ Cardinality(call.args[1]) > MaxSuffix
    /\ call.ret = <<"d", "/", "a", "_", "2", ".webm">>

Sanitized(r) ==
    /\ r # <<>>
    /\ Len(r) <= MaxNameLen
    /\ \A i \in 1..Len(r) : r[i] \notin Reserved \cup ControlChars

\* C14: for every input string sanitize_filename returns a non-empty string of
\* at most 200 characters with none of the reserved characters <>:"/\|?* and no
\* control character.
C14_SanitizeTotalBounded ==
    call.fn = "sanitize_filename" =>
        /\ Sanitized(sanitize_filename(call.args[1]))
        /\ call.done => Sanitized(call.ret)

\* a name longer than 200 characters that starts with a dot and ends with a
\* space has been cut to 200 characters
C14_Witness ==
    /\ call.fn = "sanitize_filename"
    /\ call.done
    /\ Len(call.args[1]) > MaxNameLen
    /\ Head(call.args[1]) = "."
    /\ Len(call.ret) = MaxNameLen

Completed == {"Fetched", "FetchFailed"}

\* the selected listings in submission order
Submitted == [L \in 1..Len(selected_threads) |-> L]

C15_DispatchStep(p) ==
    \A L \in Listings :
        \* a fetch starts only from the queue and never returns to it
        /\ (fut'[p][L] = "Fetching" /\ fut[p][L] # "Fetching") => fut[p][L] = "Pending"
        /\ fut[p][L] # "Pending" => fut'[p][L] # "Pending"
        \* the loop takes the completed futures in the order of done_q
        /\ (pc[p] = "wait" /\ fut[p][L] \in Completed /\ fut'[p][L] \notin Completed)
           => (done_q[p] # <<>> /\ L = Head(done_q[p]) /\ done_q'[p] = Tail(done_q[p]))
        \* a fetch that completes after the as_completed call is yielded after
        \* those that completed before it
        /\ (pc[p] # "submitted" /\ fut[p][L] = "Fetching" /\ fut'[p][L] \in Completed)
           => done_q'[p] = Append(done_q[p], L)

\* C15: the fetches in flight never outnumber the workers of the pool; every
\* selected listing is dispatched exactly once (its fetch starts from the queue,
\* once, and has started when the run ends); results are consumed in completion
\* order: any fetch in flight may be the next to complete, and when all have
\* completed before as_completed is called, every permutation of the selected
\* listings is a possible processing order.
C15_BoundedPoolAnyOrder ==
    /\ [](\A p \in Runs :
            /\ Cardinality(InFlight(p)) <= MaxWorkers
            /\ pc[p] \in {"summary", "exit"} =>
                   \A L \in Listings : fut[p][L] \notin {"Pending", "Fetching"}
            /\ \A L \in InFlight(p) : ENABLED FetchReturn(p, L) /\ ENABLED FetchRaise(p, L)
            /\ (pc[p] = "submitted" /\ \A L \in Listings : fut[p][L] \in Completed)
               => \A r \in Orders(Submitted) :
                     ENABLED (AsCompleted(p) /\ done_q'[p] = r))
    /\ [][\A p \in Runs : C15_DispatchStep(p)]_vars

\* the listing submitted last has been processed first, the one submitted
\* first will be processed last
C15_Witness ==
    \E p \in Runs :
        /\ Len(selected_threads) = 3
        /\ fut[p][3] = "Done"
        /\ fut[p][1] = "Fetched"
        /\ fut[p][2] = "Fetched"
        /\ done_q[p] = <<2, 1>>

\* the path lies in the directory named by the title of listing L
InDirOf(path, L) ==
    \E d \in {safe_title(L), thread_title(L)} :
        Len(path) > Len(d) + 1 /\ SubSeq(path, 1, Len(d) + 1) = d \o <<"/">>

\* C16: whatever the completion order of the fetches, a document is processed
\* under the id and title of the listing it was fetched for, and every file
\* written from it lies in the directory named by that listing's own title.
C16_PayloadUnderOwnIdentity ==
    \A p \in Runs :
        /\ frame[p].thread # 0 => frame[p].data = frame[p].thread
        /\ \A path \in DOMAIN files :
              files[path].owner[1] = p => InDirOf(path, files[path].owner[2])

\* C17: a download step only ever deletes a file it created itself: whenever a
\* file leaves the disk, the step that removed it is the cleanup of the task
\* that created that file. In particular the cleanup of a request that failed
\* before the step created its target leaves a file that another writer has
\* meanwhile created at the same path.
C17_RemoveStep ==
    \A path \in DOMAIN files :
        path \notin DOMAIN files' =>
            \E p \in Runs :
                /\ pc[p] = "cleanup"
                /\ pc'[p] # "cleanup"
                /\ frame[p].file_path = path
                /\ files[path].owner = Task(p)

C17_DeletesOnlyOwnFile == [][C17_RemoveStep]_vars

\* C18: no step overwrites or truncates an existing file. A path that stays on
\* disk keeps its creator and never loses bytes; bytes are added only by the
\* streaming step of the task that created the file, one chunk at a time; a new
\* file appears only empty, through the exclusive create of the acting step. So
\* no file ever holds more than one body, and the file of a Downloaded task
\* holds exactly the body that task wrote, whichever posts share its filename.
C18_WriteStep ==
    /\ \A path \in DOMAIN files \cap DOMAIN files' :
          /\ files'[path].owner = files[path].owner
          /\ files'[path].chunks >= files[path].chunks
          /\ files'[path].chunks # files[path].chunks =>
                \E p \in Runs :
                    /\ pc[p] = "stream"
                    /\ frame[p].f
                    /\ frame[p].file_path = path
                    /\ files[path].owner = Task(p)
                    /\ files'[path].chunks = files[path].chunks + 1
                    /\ frame'[p].written = frame[p].written + 1
    /\ \A path \in DOMAIN files' \ DOMAIN files :
          /\ files'[path].chunks = 0
          /\ \E p \in Runs :
                /\ pc[p] = "open"
                /\ frame[p].file_path = path
                /\ files'[path].owner = Task(p)
                /\ Task(p) \notin created

C18_NoOverwrite ==
    /\ [](/\ \A path \in DOMAIN files :
                /\ files[path].chunks <= BodyChunks
                /\ files[path].owner \in created
          /\ \A p \in Runs : \A L \in Listings : \A i \in Tasks(L) :
                /\ Cardinality(OwnedFiles(<<p, L, i>>)) <= 1
                /\ outs[p][L][i] = <<"Downloaded">> =>
                      \A path \in OwnedFiles(<<p, L, i>>) :
                          files[path].chunks = BodyChunks)
    /\ [][C18_WriteStep]_vars

\* two runs have each downloaded both posts of the same filename: four complete
\* files, each of its own task
C18_Witness ==
    /\ Cardinality({path \in DOMAIN files : files[path].chunks = BodyChunks}) = 4
    /\ \A p \in Runs : \E L \in Listings :
          /\ Len(webms(L)) = 2
          /\ \A i \in Tasks(L) :
                /\ outs[p][L][i] = <<"Downloaded">>
                /\ Cardinality(OwnedFiles(<<p, L, i>>)) = 1

\* C19: whenever a webm has ended as Failed, for any kind of error, no file of
\* that webm is left at its target path unless os.remove itself failed; so
\* when the run has printed its summary every file it created is complete.
C19_NoPartialFileAfterFailed ==
    \A p \in Runs : \A L \in Listings : \A i \in Tasks(L) :
        /\ ( /\ outs[p][L][i] # <<>>
             /\ outs[p][L][i][1] \in Failed
             /\ <<p, L, i>> \notin rm_failed )
           => OwnedFiles(<<p, L, i>>) = {}
        /\ (pc[p] = "summary" /\ <<p, L, i>> \notin rm_failed)
           => \A path \in OwnedFiles(<<p, L, i>>) : files[path].chunks = BodyChunks

====
